---- MODULE Spec2Model ----
(***************************************************************************)
(* pod-reaper (main.go): the reconciliation loop of main, reapPods and     *)
(* reapNodes, as one sequential process driven by a program counter.       *)
(* Durations and timestamps are whole hours, the clock reads 0 when the    *)
(* process starts, and the reaper interval is one hour.                    *)
(***************************************************************************)
EXTENDS Integers, Sequences, FiniteSets, TLC

\* ---------------------------------------------------------------- bounds
MaxPods == 2
MaxBudget == 1
MaxNodes == 2
MaxTicks == 2

\* ------------------------------------------------------------- constants
lifetimeAnnotation == "pod.kubernetes.io/lifetime"

\* Namespaces of the cluster that hold pods.
ClusterNamespaces == {"a", "b"}

\* Pod status reasons.
StatusReasons == {"", "Evicted"}

\* sleepDuration(), in units of the clock.
SleepInterval == 1

VARIABLES
    maxReaperCount,    \* main: maxReaperCountPerRun()
    evict,             \* main: evict()
    reapEvicted,       \* main: reapEvictedPods()
    runAsCronJob,      \* main: cronJob()
    reaperNamespaces,  \* main: namespaces()
    nodeLifeTime,      \* environment: NODE_LIFE_TIME
    podSpec,           \* cluster: pod name -> [Namespace, Annotations, CreationTimestamp, Reason]
    cluster,           \* cluster: names of the pods that exist
    now,               \* wall clock
    tick,              \* number of the current iteration of main's loop
    pc,                \* position of the process
    nsIdx,             \* reapPods: index of ns in reaperNamespaces
    podsErr,           \* reapPods: the error of the list call
    items,             \* reapPods: pods.Items (names, in list order)
    idx,               \* reapPods: index of v in pods.Items
    podsTracking,      \* reapPods: podsTracking
    podsKilled,        \* reapPods: podsKilled
    tickTtlReaps,      \* successful lifetime reaps of the current tick, over all namespaces
    calls,             \* requests sent to the API server during the current namespace pass
    prevQualified,     \* per namespace: the pods past their lifetime at the previous pass
    metricPods,        \* gauge vector pod_reaper_detected
    metricPodsReaped,  \* counter vector pod_reaper_reaped
    nodes,             \* reapNodes: nodes.Items
    nodesErr,          \* reapNodes: the error of the list call, which is dropped
    nGroups,           \* reapNodes: nGroups
    nodeIdx,           \* reapNodes: index of node in the taint loop
    taintCalls,        \* AddOrUpdateTaintOnNode requests of the current tick
    metricNodes        \* gauge vector node_reaper_detected

cfgVars == <<maxReaperCount, evict, reapEvicted, runAsCronJob, reaperNamespaces, nodeLifeTime, podSpec>>
podVars == <<cluster, nsIdx, podsErr, items, idx, podsTracking, podsKilled, tickTtlReaps, calls,
             prevQualified, metricPods, metricPodsReaped>>
nodeVars == <<nodes, nodesErr, nGroups, nodeIdx, taintCalls, metricNodes>>
vars == <<cfgVars, podVars, nodeVars, now, tick, pc>>

\* ------------------------------------------------------------ helpers
\* time.ParseDuration: the duration and whether parsing failed (0 on failure).
ParseDuration(s) ==
    CASE s = "1h"  -> [d |-> 1,  err |-> FALSE]
      [] s = "2h"  -> [d |-> 2,  err |-> FALSE]
      [] s = "-1h" -> [d |-> -1, err |-> FALSE]
      [] s = "0"   -> [d |-> 0,  err |-> FALSE]
      [] OTHER     -> [d |-> 0,  err |-> TRUE]

\* strings.Contains(reason, "Evicted")
ContainsEvicted(reason) == reason \in {"Evicted", "NodeEvicted"}

\* time.Since(t)
Since(t) == now - t

\* GaugeVec.WithLabelValues(labels).Set(val): the series is created on first use.
SetGauge(vec, labels, val) ==
    [l \in DOMAIN vec \cup {labels} |-> IF l = labels THEN val ELSE vec[l]]

\* CounterVec.WithLabelValues(labels).Add(delta)
AddCounter(vec, labels, delta) ==
    [l \in DOMAIN vec \cup {labels} |->
        IF l = labels THEN (IF l \in DOMAIN vec THEN vec[l] ELSE 0) + delta ELSE vec[l]]

\* All orders in which a list call may return the set S.
RECURSIVE Orders(_)
Orders(S) ==
    IF S = {} THEN {<<>>}
    ELSE UNION {{<<x>> \o t : t \in Orders(S \ {x})} : x \in S}

\* ------------------------------------------------------- initial states
\* The kinds of pod a cluster holds: every annotation value (or none), every status
\* reason and every namespace; a pod is created two hours before the process starts,
\* or one hour before it, so that a pod with the "1h" lifetime is past its lifetime at
\* the first tick or exactly at it.
NumPodKinds == 6 * Cardinality(StatusReasons) * Cardinality(ClusterNamespaces)

PodKind(k) ==
    [ Namespace   |-> IF k \div 12 = 0 THEN "a" ELSE "b",
      Reason      |-> IF (k \div 6) % 2 = 0 THEN "" ELSE "Evicted",
      Annotations |->
          CASE k % 6 = 0 -> [a \in {} |-> ""]
            [] k % 6 = 1 -> [a \in {lifetimeAnnotation} |-> "bogus"]
            [] k % 6 = 2 -> [a \in {lifetimeAnnotation} |-> "0"]
            [] k % 6 = 3 -> [a \in {lifetimeAnnotation} |-> "-1h"]
            [] OTHER     -> [a \in {lifetimeAnnotation} |-> "1h"],
      CreationTimestamp |-> IF k % 6 = 5 THEN -1 ELSE -2 ]

\* Pod names are interchangeable (every list order is modelled), so the clusters are
\* enumerated up to renaming.
Clusters ==
    { [p \in 1..MaxPods |-> PodKind(ks[p])] :
        ks \in { f \in [1..MaxPods -> 0..(NumPodKinds - 1)] :
                    \A p \in 1..(MaxPods - 1) : f[p] <= f[p + 1] } }

NoPass == [ran |-> FALSE, pods |-> {}]

InitState ==
    /\ cluster = DOMAIN podSpec
    /\ now = 0
    /\ tick = 1
    /\ pc = "reapPods"
    /\ nsIdx = 1
    /\ podsErr = FALSE
    /\ items = <<>>
    /\ idx = 1
    /\ podsTracking = 0
    /\ podsKilled = 0
    /\ tickTtlReaps = 0
    /\ calls = <<>>
    /\ prevQualified = [n \in ClusterNamespaces |-> NoPass]
    /\ metricPods = <<>>
    /\ metricPodsReaped = <<>>
    /\ nodes = <<>>
    /\ nodesErr = FALSE
    /\ nGroups = <<>>
    /\ nodeIdx = 1
    /\ taintCalls = <<>>
    /\ metricNodes = <<>>

\* ------------------------------------------------------------- reapPods
ns == reaperNamespaces[nsIdx]

HasLifetime(p) == lifetimeAnnotation \in DOMAIN podSpec[p].Annotations

Lifetime(p) == ParseDuration(podSpec[p].Annotations[lifetimeAnnotation]).d

\* Mutant: the budget test is off by one.
BudgetLeftOffByOne == podsKilled <= maxReaperCount

\* Mutant: the budget test stops one reap early.
BudgetLeftStrict == podsKilled + 1 < maxReaperCount

\* line 253: podsKilled < maxReaperCount
BudgetLeft == podsKilled < maxReaperCount

\* Mutant: a pod whose age equals its lifetime is past it.
PastLifetimeInclusive(p) == Since(podSpec[p].CreationTimestamp) >= Lifetime(p)

\* lines 255-256: currentLifetime > lifetime
PastLifetime(p) == Since(podSpec[p].CreationTimestamp) > Lifetime(p)

\* Mutant: a zero lifetime is not rejected.
TtlReapsNoZeroCheck(p) ==
    /\ HasLifetime(p)
    /\ BudgetLeft
    /\ PastLifetime(p)

\* lines 247-256: the pod gets an Evict or Delete call from the lifetime branch.
TtlReaps(p) ==
    /\ HasLifetime(p)
    /\ Lifetime(p) /= 0
    /\ BudgetLeft
    /\ PastLifetime(p)

\* Mutant: the evicted branch ignores the reap-evicted mode.
CleanupReapsAlways(p) == ContainsEvicted(podSpec[p].Reason)

\* Mutant: the evicted branch is subject to the budget.
CleanupReapsWithinBudget(p) ==
    reapEvicted /\ ContainsEvicted(podSpec[p].Reason) /\ BudgetLeft

\* line 280: the pod gets a Delete call from the evicted branch.
CleanupReaps(p) == reapEvicted /\ ContainsEvicted(podSpec[p].Reason)

\* Mutant: every pod is counted as tracked.
TrackingAfterAlways(p) == podsTracking + 1

\* line 249: podsTracking++
TrackingAfter(p) == IF HasLifetime(p) THEN podsTracking + 1 ELSE podsTracking

\* Mutant: a successful lifetime reap is not counted.
KilledAfterTtlForgotten(called, ok) == podsKilled

\* Mutant: a lifetime reap is counted whether or not the call succeeded.
KilledAfterTtlAttempt(called, ok) == IF called THEN podsKilled + 1 ELSE podsKilled

\* line 272: podsKilled++ after a successful lifetime reap
KilledAfterTtl(called, ok) == IF called /\ ok THEN podsKilled + 1 ELSE podsKilled

\* line 287: podsKilled++ after the evicted pod was deleted
KilledAfterCleanup(killed) == killed + 1

\* Mutant: a failed delete of an evicted pod is logged and the loop goes on.
CleanupFailureLogged(called, ok) == FALSE

\* lines 282-285: the process panics when the delete of the evicted pod fails
CleanupPanics(called, ok) == called /\ ~ok

\* lines 232-235: no namespace is configured.
NoNamespaces ==
    /\ pc = "reapPods"
    /\ Len(reaperNamespaces) = 0
    /\ pc' = "reapNodes"
    /\ UNCHANGED <<cfgVars, podVars, nodeVars, now, tick>>

\* Mutant: the killed count is kept from the pass before.
PassStartKilledKept == podsKilled

\* line 244: podsKilled := 0
PassStartKilled == 0

\* lines 237-244: the pods of the next namespace are listed, in any order.
ListPods ==
    /\ pc = "reapPods"
    /\ nsIdx <= Len(reaperNamespaces)
    /\ podsErr' = FALSE
    /\ items' \in Orders({p \in cluster : podSpec[p].Namespace = ns})
    /\ idx' = 1
    /\ podsTracking' = 0
    /\ podsKilled' = PassStartKilled
    /\ calls' = <<>>
    /\ pc' = "podLoop"
    /\ UNCHANGED <<cfgVars, cluster, nsIdx, tickTtlReaps, prevQualified, metricPods,
                   metricPodsReaped, nodeVars, now, tick>>

\* Mutant: the error of the pod list is dropped and the pass runs over no pods.
ListPodsFailsIgnored ==
    /\ pc = "reapPods"
    /\ nsIdx <= Len(reaperNamespaces)
    /\ podsErr' = TRUE
    /\ items' = <<>>
    /\ pc' = "podLoop"
    /\ UNCHANGED <<cfgVars, cluster, nsIdx, idx, podsTracking, podsKilled, tickTtlReaps,
                   calls, prevQualified, metricPods, metricPodsReaped, nodeVars, now, tick>>

\* lines 237-240: the list call fails and the process panics.
ListPodsFails ==
    /\ pc = "reapPods"
    /\ nsIdx <= Len(reaperNamespaces)
    /\ podsErr' = TRUE
    /\ pc' = "panic"
    /\ UNCHANGED <<cfgVars, cluster, nsIdx, items, idx, podsTracking, podsKilled,
                   tickTtlReaps, calls, prevQualified, metricPods, metricPodsReaped, nodeVars, now, tick>>

\* The results a call can have; a call that is not made has none to choose.
Outcomes(called) == IF called THEN BOOLEAN ELSE {TRUE}

\* lines 246-289: one iteration of the loop over pods.Items. The reap calls succeed
\* or fail as the API server decides; a deleted or evicted pod leaves the cluster.
ProcessPod ==
    /\ pc = "podLoop"
    /\ idx <= Len(items)
    /\ LET v       == items[idx]
           ttl     == TtlReaps(v)
           cleanup == CleanupReaps(v)
       IN
       \E ttlOk \in Outcomes(ttl), cleanupOk \in Outcomes(cleanup) :
          LET ttlCall  == [pod |-> v, op |-> IF evict THEN "evict" ELSE "delete",
                           branch |-> "ttl", ok |-> ttlOk]
              calls1   == IF ttl THEN Append(calls, ttlCall) ELSE calls
              killed1  == KilledAfterTtl(ttl, ttlOk)
              cluster1 == IF ttl /\ ttlOk THEN cluster \ {v} ELSE cluster
              cleanupCall == [pod |-> v, op |-> "delete", branch |-> "cleanup",
                              ok |-> cleanupOk]
          IN  /\ podsTracking' = TrackingAfter(v)
              /\ tickTtlReaps' = IF ttl /\ ttlOk THEN tickTtlReaps + 1 ELSE tickTtlReaps
              /\ calls' = IF cleanup THEN Append(calls1, cleanupCall) ELSE calls1
              /\ IF CleanupPanics(cleanup, cleanupOk)
                 THEN \* line 284: panic
                      /\ pc' = "panic"
                      /\ podsKilled' = killed1
                      /\ cluster' = cluster1
                      /\ idx' = idx
                 ELSE /\ pc' = pc
                      /\ podsKilled' = IF cleanup THEN KilledAfterCleanup(killed1) ELSE killed1
                      /\ cluster' = IF cleanup THEN cluster1 \ {v} ELSE cluster1
                      /\ idx' = idx + 1
    /\ UNCHANGED <<cfgVars, nsIdx, podsErr, items, prevQualified, metricPods,
                   metricPodsReaped, nodeVars, now, tick>>

\* The pods of the list that qualify for reaping: the lifetime annotation is present,
\* its value parses to a non-zero duration and the pod's age exceeds it.
Qualifies(p) ==
    /\ lifetimeAnnotation \in DOMAIN podSpec[p].Annotations
    /\ LET d == ParseDuration(podSpec[p].Annotations[lifetimeAnnotation]).d
       IN  d /= 0 /\ now - podSpec[p].CreationTimestamp > d

Qualified(listed) == {p \in listed : Qualifies(p)}

Range(s) == {s[i] : i \in DOMAIN s}

\* line 292: the value of the "ignoring" gauge
Ignoring == Len(items) - podsTracking

\* Mutant: reapPods returns after the first namespace.
AfterFirstNamespace == "reapNodes"

\* lines 236 and 296: the loop takes the next namespace; after the last one reapPods
\* returns and main calls reapNodes (line 141).
AfterNamespace == IF nsIdx < Len(reaperNamespaces) THEN "reapPods" ELSE "reapNodes"

\* lines 291-295: the metrics of the namespace are published, the list and the log of the
\* pass are gone and the loop over the namespaces goes on; after the last
\* namespace reapPods returns.
PublishPodMetrics ==
    /\ pc = "podLoop"
    /\ idx > Len(items)
    /\ metricPods' = SetGauge(SetGauge(metricPods, <<ns, "ignoring">>, Ignoring),
                              <<ns, "tracking">>, podsTracking)
    /\ metricPodsReaped' = AddCounter(metricPodsReaped, <<ns, "killed">>, podsKilled)
    /\ prevQualified' = [prevQualified EXCEPT ![ns] = [ran |-> TRUE, pods |-> Qualified(Range(items))]]
    /\ nsIdx' = nsIdx + 1
    /\ items' = <<>>
    /\ idx' = 1
    /\ podsTracking' = 0
    /\ calls' = <<>>
    /\ pc' = AfterNamespace
    /\ UNCHANGED <<cfgVars, cluster, podsErr, podsKilled, tickTtlReaps, nodeVars, now, tick>>

\* ------------------------------------------------------------ reapNodes
Absent == "<absent>"

\* node.Labels: a map holding the labels that are present.
NodeLabels(lifecycle, ciNode, nodegroup) ==
    LET present == (IF lifecycle = Absent THEN {} ELSE {"node-lifecycle"})
                   \cup (IF ciNode = Absent THEN {} ELSE {"ci_node"})
                   \cup (IF nodegroup = Absent THEN {} ELSE {"alpha.eksctl.io/nodegroup-name"})
    IN  [k \in present |->
            CASE k = "node-lifecycle" -> lifecycle
              [] k = "ci_node"        -> ciNode
              [] OTHER                -> nodegroup]

\* The nodes a list call may return at the current time: spot or on-demand, with or
\* without a nodegroup label, and an age below, at or above a lifetime of one hour; the
\* nodes above it are the ones that carry the ci_node label.
NodeKinds ==
    { [Labels |-> NodeLabels(lc, IF age = 2 THEN "Disable:NoSchedule" ELSE Absent, ng),
       CreationTimestamp |-> now - age] :
        lc \in {"spot", "on-demand"},
        ng \in {Absent, "ng-a"},
        age \in 0..2 }

NodeLists ==
    UNION { { [i \in 1..n |-> [Name |-> i, Labels |-> ks[i].Labels,
                               CreationTimestamp |-> ks[i].CreationTimestamp]] :
                ks \in [1..n -> NodeKinds] } : n \in 0..MaxNodes }

HasLabel(node, k, v) == k \in DOMAIN node.Labels /\ node.Labels[k] = v

\* Mutant: any value of the lifecycle label counts as spot.
IsSpotAnyLifecycle(node) == "node-lifecycle" \in DOMAIN node.Labels

\* lines 323-325 and 355-357
IsSpot(node) == HasLabel(node, "node-lifecycle", "spot")

\* lines 326-328
IsTainted(node) == HasLabel(node, "ci_node", "Disable:NoSchedule")

\* lines 320, 329-331
NodeGroupOf(node) ==
    IF "alpha.eksctl.io/nodegroup-name" \in DOMAIN node.Labels
    THEN node.Labels["alpha.eksctl.io/nodegroup-name"]
    ELSE ""

\* lines 321-328: the NodeGroup value built for one node; Total keeps its zero value.
NodeGroupFor(node) ==
    [Spot    |-> IF IsSpot(node) THEN 1 ELSE 0,
     Tainted |-> IF IsTainted(node) THEN 1 ELSE 0,
     Total   |-> 0]

\* lines 333-339: the node's NodeGroup is added to the entry of its group.
AddNode(groups, node) ==
    LET g  == NodeGroupOf(node)
        ng == NodeGroupFor(node)
        sum == IF g \in DOMAIN groups
               THEN [Spot    |-> ng.Spot + groups[g].Spot,
                     Tainted |-> ng.Tainted + groups[g].Tainted,
                     Total   |-> ng.Total + groups[g].Total]
               ELSE ng
    IN  [k \in DOMAIN groups \cup {g} |-> IF k = g THEN sum ELSE groups[k]]

\* lines 318-340: the loop that counts the nodes of each group.
RECURSIVE CountGroups(_, _)
CountGroups(groups, list) ==
    IF list = <<>> THEN groups
    ELSE CountGroups(AddNode(groups, Head(list)), Tail(list))

\* lines 342-346: the three gauges of every group of nGroups are set.
GaugesOf(vec, groups) ==
    [l \in DOMAIN vec \cup ((DOMAIN groups) \X {"spot", "tainted", "total"}) |->
        IF l[1] \in DOMAIN groups
        THEN CASE l[2] = "spot"    -> groups[l[1]].Spot
               [] l[2] = "tainted" -> groups[l[1]].Tainted
               [] OTHER            -> groups[l[1]].Total
        ELSE vec[l]]

\* lines 351-361: the node is tainted in the second loop.
TooYoung(node, lifetime) == Since(node.CreationTimestamp) < lifetime

Taints(node, lifetime) == ~TooYoung(node, lifetime) /\ IsSpot(node)

\* lines 299-303: NODE_LIFE_TIME is not set.
NodeReaperDisabled ==
    /\ pc = "reapNodes"
    /\ nodeLifeTime = ""
    /\ pc' = "tickEnd"
    /\ UNCHANGED <<cfgVars, podVars, nodeVars, now, tick>>

\* lines 304-308: NODE_LIFE_TIME is no duration.
NodeLifeTimeInvalid ==
    /\ pc = "reapNodes"
    /\ nodeLifeTime /= ""
    /\ ParseDuration(nodeLifeTime).err
    /\ pc' = "tickEnd"
    /\ UNCHANGED <<cfgVars, podVars, nodeVars, now, tick>>

NodeReaperRuns ==
    /\ pc = "reapNodes"
    /\ nodeLifeTime /= ""
    /\ ~ParseDuration(nodeLifeTime).err

\* lines 316-340: the nodes are listed and counted per group.
ListNodes ==
    /\ NodeReaperRuns
    /\ nodes' \in NodeLists
    /\ nodesErr' = FALSE
    /\ nGroups' = CountGroups(<<>>, nodes')
    /\ nodeIdx' = 1
    /\ taintCalls' = <<>>
    /\ pc' = "nodeMetrics"
    /\ UNCHANGED <<cfgVars, podVars, metricNodes, now, tick>>

\* line 316: the error of the list call is dropped and the list is empty.
ListNodesFails ==
    /\ NodeReaperRuns
    /\ nodes' = <<>>
    /\ nodesErr' = TRUE
    /\ nGroups' = CountGroups(<<>>, nodes')
    /\ nodeIdx' = 1
    /\ taintCalls' = <<>>
    /\ pc' = "nodeMetrics"
    /\ UNCHANGED <<cfgVars, podVars, metricNodes, now, tick>>

\* lines 342-346
PublishNodeMetrics ==
    /\ pc = "nodeMetrics"
    /\ metricNodes' = GaugesOf(metricNodes, nGroups)
    /\ pc' = "taintLoop"
    /\ UNCHANGED <<cfgVars, podVars, nodes, nodesErr, nGroups, nodeIdx, taintCalls, now, tick>>

\* Mutant: the taint loop ends at the first failed taint call.
AfterTaintStopsOnError(called, ok) == IF called /\ ~ok THEN Len(nodes) + 1 ELSE nodeIdx + 1

\* lines 362-366: the error of the taint call is logged and the loop takes the next node
AfterTaint(called, ok) == nodeIdx + 1

\* lines 348-367: one iteration of the taint loop; the taint call succeeds or fails.
TaintNode ==
    /\ pc = "taintLoop"
    /\ nodeIdx <= Len(nodes)
    /\ LET node   == nodes[nodeIdx]
           called == Taints(node, ParseDuration(nodeLifeTime).d)
       IN  \E ok \in Outcomes(called) :
              /\ taintCalls' = IF called
                               THEN Append(taintCalls, [node |-> node.Name, ok |-> ok])
                               ELSE taintCalls
              /\ nodeIdx' = AfterTaint(called, ok)
    /\ UNCHANGED <<cfgVars, podVars, nodes, nodesErr, nGroups, metricNodes, now, tick, pc>>

\* line 368: reapNodes returns and its locals are gone.
ReapNodesReturns ==
    /\ pc = "taintLoop"
    /\ nodeIdx > Len(nodes)
    /\ nodes' = <<>>
    /\ nodesErr' = FALSE
    /\ nGroups' = <<>>
    /\ nodeIdx' = 1
    /\ taintCalls' = <<>>
    /\ pc' = "tickEnd"
    /\ UNCHANGED <<cfgVars, podVars, metricNodes, now, tick>>

\* ----------------------------------------------------------------- main
\* lines 142-144: in cron-job mode the loop ends after one iteration.
CronExit ==
    /\ pc = "tickEnd"
    /\ runAsCronJob
    /\ pc' = "exit"
    /\ UNCHANGED <<cfgVars, podVars, nodeVars, now, tick>>

\* lines 145-146 and 136: the process sleeps for the reaper interval, the unit of
\* time of the model, and the next iteration starts.
Sleep ==
    /\ pc = "tickEnd"
    /\ ~runAsCronJob
    /\ tick < MaxTicks
    /\ now' = now + SleepInterval
    /\ tick' = tick + 1
    /\ nsIdx' = 1
    /\ tickTtlReaps' = 0
    /\ pc' = "reapPods"
    /\ UNCHANGED <<cfgVars, cluster, podsErr, items, idx, podsTracking, podsKilled, calls,
                   prevQualified, metricPods, metricPodsReaped, nodeVars>>

\* ------------------------------------------------------- specifications
\* The pod reaper is configured: namespaces "a" and "b" are watched, over every cluster
\* of MaxPods pods.
PodReaperConfigs(nodeLifeTimes, modes) ==
    /\ maxReaperCount \in 0..MaxBudget
    /\ evict \in BOOLEAN
    /\ reapEvicted \in BOOLEAN
    /\ runAsCronJob \in modes
    /\ reaperNamespaces = <<"a", "b">>
    /\ nodeLifeTime \in nodeLifeTimes
    /\ podSpec \in Clusters

\* No namespace is configured: reapPods returns at once (lines 232-235) and reads
\* neither its other parameters nor the pods.
NodeReaperConfigs(nodeLifeTimes, modes) ==
    /\ maxReaperCount = 0
    /\ evict = FALSE
    /\ reapEvicted = FALSE
    /\ runAsCronJob \in modes
    /\ reaperNamespaces = <<>>
    /\ nodeLifeTime \in nodeLifeTimes
    /\ podSpec \in {[p \in 1..MaxPods |-> PodKind(0)]}

\* The whole program, under the configurations in which the pod reaper runs and
\* reapNodes returns before listing, or reapPods returns at once and the node reaper
\* runs.
Init ==
    /\ \/ PodReaperConfigs({"", "bogus"}, BOOLEAN)
       \/ NodeReaperConfigs({"bogus", "1h"}, BOOLEAN)
    /\ InitState

Next ==
    \/ NoNamespaces
    \/ ListPods
    \/ ListPodsFails
    \/ ProcessPod
    \/ PublishPodMetrics
    \/ NodeReaperDisabled
    \/ NodeLifeTimeInvalid
    \/ ListNodes
    \/ ListNodesFails
    \/ PublishNodeMetrics
    \/ TaintNode
    \/ ReapNodesReturns
    \/ CronExit
    \/ Sleep

Spec == Init /\ [][Next]_vars

\* Pod reconciliation in daemon mode, the node reaper disabled (NODE_LIFE_TIME unset).
InitPods ==
    /\ PodReaperConfigs({""}, {FALSE})
    /\ InitState

NextPods ==
    \/ ListPods
    \/ ListPodsFails
    \/ ProcessPod
    \/ PublishPodMetrics
    \/ NodeReaperDisabled
    \/ Sleep

SpecPods == InitPods /\ [][NextPods]_vars

\* Pod reconciliation in daemon mode with its scheduling: the loop of main is one
\* goroutine that does not block, so the process takes its next step as long as it
\* has one.
SpecPodsFair == InitPods /\ [][NextPods]_vars /\ WF_vars(NextPods)

\* Node reconciliation in daemon mode, no namespace configured (REAPER_NAMESPACES unset).
InitNodes ==
    /\ NodeReaperConfigs({"bogus", "1h"}, {FALSE})
    /\ InitState

NextNodes ==
    \/ NoNamespaces
    \/ NodeLifeTimeInvalid
    \/ ListNodes
    \/ ListNodesFails
    \/ PublishNodeMetrics
    \/ TaintNode
    \/ ReapNodesReturns
    \/ Sleep

SpecNodes == InitNodes /\ [][NextNodes]_vars

\* The whole program in daemon mode: the pod reaper with the node reaper disabled, or
\* the node reaper with no namespace configured.
InitDaemon ==
    /\ \/ PodReaperConfigs({""}, {FALSE})
       \/ NodeReaperConfigs({"bogus", "1h"}, {FALSE})
    /\ InitState

NextDaemon ==
    \/ NoNamespaces
    \/ ListPods
    \/ ListPodsFails
    \/ ProcessPod
    \/ PublishPodMetrics
    \/ NodeReaperDisabled
    \/ NodeLifeTimeInvalid
    \/ ListNodes
    \/ ListNodesFails
    \/ PublishNodeMetrics
    \/ TaintNode
    \/ ReapNodesReturns
    \/ Sleep

SpecDaemon == InitDaemon /\ [][NextDaemon]_vars

\* The whole program with its scheduling: main is one goroutine that neither blocks
\* nor waits for another one, every call returns and the sleep ends, so the process
\* takes its next step as long as it has one.
SpecFair == Init /\ [][Next]_vars /\ WF_vars(Next)

\* ------------------------------------------------- properties: reapPods
\* The loop over pods.Items has ended and the metrics are about to be published.
PassDone == pc = "podLoop" /\ idx > Len(items)

InPass == pc = "podLoop" \/ (pc = "panic" /\ items /= <<>>)

TtlCalls == {i \in DOMAIN calls : calls[i].branch = "ttl"}

CleanupCalls == {i \in DOMAIN calls : calls[i].branch = "cleanup"}

Succeeded(S) == {i \in S : calls[i].ok}

Called(p) == \E i \in DOMAIN calls : calls[i].pod = p

\* The pods removed by a call of the pass.
Reaped == {calls[i].pod : i \in Succeeded(DOMAIN calls)}

Listed == Range(items)

AllCallsSucceed == \A i \in DOMAIN calls : calls[i].ok

\* C1 (as stated): in a pass over a namespace with k qualifying pods and budget m < k,
\* exactly m pods are reaped, the other k-m qualifying pods get no mutation call and
\* the killed count is exactly m.
C1_ExactlyBudgetReaped ==
    (PassDone /\ maxReaperCount < Cardinality(Qualified(Listed)))
        => /\ Cardinality(Reaped) = maxReaperCount
           /\ \A p \in Qualified(Listed) \ Reaped : ~Called(p)
           /\ podsKilled = maxReaperCount

\* C1 (amended): with k qualifying pods and budget m < k, at most m pods are reaped by
\* the lifetime branch and the killed count is the number of successful lifetime reaps
\* plus the number of evicted-pod deletions; when every call of the pass succeeds and
\* no evicted pod is deleted, exactly m pods are reaped, the other k-m qualifying pods
\* get no call and the killed count is m.
C1_BudgetReaped ==
    (PassDone /\ maxReaperCount < Cardinality(Qualified(Listed)))
        => /\ Cardinality(Succeeded(TtlCalls)) <= maxReaperCount
           /\ podsKilled = Cardinality(Succeeded(TtlCalls)) + Cardinality(Succeeded(CleanupCalls))
           /\ (AllCallsSucceed /\ CleanupCalls = {})
                => /\ Cardinality(Reaped) = maxReaperCount
                   /\ \A p \in Qualified(Listed) \ Reaped : ~Called(p)
                   /\ podsKilled = maxReaperCount

\* C1 witness: a finished pass with more qualifying pods than budget, all calls
\* succeeding, in which a pod was reaped and a qualifying pod was left alone.
C1_Witness ==
    /\ PassDone
    /\ maxReaperCount < Cardinality(Qualified(Listed))
    /\ AllCallsSucceed /\ CleanupCalls = {}
    /\ Reaped /= {}
    /\ \E p \in Qualified(Listed) : ~Called(p)

\* The number of successful calls before the i-th call of the pass: the value of
\* podsKilled when the i-th call is made.
KilledBefore(i) == Cardinality({j \in Succeeded(DOMAIN calls) : j < i})

\* C2: in every pass the successful lifetime reaps number at most max-reap-count,
\* whatever the list order, the failing calls and the evicted pods, and no lifetime
\* reap is issued once the killed count has reached max-reap-count.
C2_AtMostBudget ==
    InPass => /\ Cardinality(Succeeded(TtlCalls)) <= maxReaperCount
              /\ \A i \in TtlCalls : KilledBefore(i) < maxReaperCount

\* C2 witness: a finished pass in which the lifetime reaps used up the budget and a
\* qualifying pod listed after them was skipped.
C2_Witness ==
    /\ PassDone
    /\ maxReaperCount > 0
    /\ Cardinality(Succeeded(TtlCalls)) = maxReaperCount
    /\ \E j \in DOMAIN items : j > 1 /\ items[j] \in Qualified(Listed) /\ ~Called(items[j])

\* C3 (as stated): with reap-evicted enabled, all calls succeeding and at least m
\* qualifying pods, m lifetime reaps occur in the pass wherever the evicted pods are
\* in the list.
C3_CleanupLeavesBudget ==
    (PassDone /\ reapEvicted /\ AllCallsSucceed
        /\ Cardinality(Qualified(Listed)) >= maxReaperCount)
        => Cardinality(Succeeded(TtlCalls)) = maxReaperCount

IsEvicted(p) == ContainsEvicted(podSpec[p].Reason)

\* The pods the loop has dealt with so far.
Processed == {items[j] : j \in 1..(idx - 1)}

\* C4 (as stated): with reap-evicted enabled a pass issues a delete for every listed
\* evicted pod; with the mode disabled no evicted pod is deleted.
C4_EvictedDeleted ==
    /\ (PassDone /\ reapEvicted)
          => \A p \in Listed : IsEvicted(p) => \E i \in CleanupCalls : calls[i].pod = p
    /\ (InPass /\ ~reapEvicted)
          => \A i \in DOMAIN calls : ~(IsEvicted(calls[i].pod) /\ calls[i].op = "delete")

\* C4 (amended): with reap-evicted enabled every evicted pod the loop has dealt with got
\* a delete from the evicted branch, whatever the budget and the killed count (a failed
\* one ends the process); with the mode disabled the evicted branch deletes nothing, and
\* an evicted pod gets a call only from the lifetime branch, as a qualifying pod.
C4_EvictedCleanup ==
    /\ (pc = "podLoop" /\ reapEvicted)
          => \A p \in Processed : IsEvicted(p) => \E i \in CleanupCalls : calls[i].pod = p
    /\ (InPass /\ ~reapEvicted)
          => /\ CleanupCalls = {}
             /\ \A i \in DOMAIN calls : calls[i].pod \in Qualified(Listed)

\* C4 witness: an evicted pod was deleted by the evicted branch when the killed count
\* had already reached the budget.
C4_Witness ==
    /\ PassDone /\ reapEvicted
    /\ \E i \in CleanupCalls : calls[i].ok /\ KilledBefore(i) >= maxReaperCount
                                /\ KilledBefore(i) > 0

\* C5 (as stated): a second pass over a namespace in which no further pod has aged out
\* since the previous pass reaps nothing.
C5_Idempotent ==
    (PassDone /\ prevQualified[ns].ran
        /\ Qualified(Listed) \subseteq prevQualified[ns].pods)
        => Succeeded(DOMAIN calls) = {}

\* C5 (amended): a second pass over a namespace in which no further pod has aged out
\* since the previous pass calls only pods that qualified in the previous pass and were
\* left by it (skipped for the budget, or their call failed); it makes no call when the
\* previous pass left no such pod.
C5_OnlyLeftovers ==
    (PassDone /\ prevQualified[ns].ran
        /\ Qualified(Listed) \subseteq prevQualified[ns].pods)
        => /\ \A i \in DOMAIN calls : calls[i].pod \in prevQualified[ns].pods
           /\ (prevQualified[ns].pods \cap Listed = {}) => calls = <<>>

\* C5 witness: a second pass, with pods listed and none of them newly or still
\* qualifying, after a pass that reaped a pod.
C5_Witness ==
    /\ PassDone /\ prevQualified[ns].ran
    /\ prevQualified[ns].pods /= {}
    /\ prevQualified[ns].pods \cap Listed = {}
    /\ Qualified(Listed) = {}
    /\ Listed /= {}

InvalidLifetime(p) == HasLifetime(p) /\ Lifetime(p) = 0

\* C9 (as stated): a pod whose lifetime value fails to parse or parses to zero gets no
\* evict or delete call and is counted as tracked.
C9_InvalidUntouched ==
    /\ InPass => \A p \in Listed : InvalidLifetime(p) => ~Called(p)
    /\ PassDone => podsTracking >= Cardinality({p \in Listed : InvalidLifetime(p)})

\* C9 (amended): a pod whose lifetime value fails to parse or parses to zero gets no call
\* from the lifetime branch and is counted as tracked; it is deleted only by the evicted
\* branch, when reap-evicted is enabled and its status reason holds "Evicted".
C9_InvalidNotTtlReaped ==
    /\ InPass => \A i \in DOMAIN calls :
                    InvalidLifetime(calls[i].pod)
                        => /\ calls[i].branch = "cleanup"
                           /\ reapEvicted
                           /\ IsEvicted(calls[i].pod)
    /\ PassDone => podsTracking = Cardinality({p \in Listed : HasLifetime(p)})

\* C9 witness: a finished pass that listed a pod with an unparsable value and a pod with
\* a zero value, both older than an hour, and called neither.
C9_Witness ==
    /\ PassDone
    /\ maxReaperCount > 0
    /\ \E p, q \in Listed :
          /\ podSpec[p].Annotations = [a \in {lifetimeAnnotation} |-> "bogus"]
          /\ podSpec[q].Annotations = [a \in {lifetimeAnnotation} |-> "0"]
          /\ ~Called(p) /\ ~Called(q)
    /\ podsTracking >= 2

\* C10: when a pass completes, the "tracking" gauge of the namespace is the number of
\* listed pods with the lifetime annotation and the "ignoring" gauge the number without
\* it, whatever was reaped, skipped or failed; and no pod without the annotation gets a
\* call from the lifetime branch.
C10_Gauges ==
    /\ [](InPass => \A i \in TtlCalls : HasLifetime(calls[i].pod))
    /\ [][(PassDone /\ pc' /= "podLoop")
            => /\ metricPods'[<<ns, "tracking">>] = Cardinality({p \in Listed : HasLifetime(p)})
               /\ metricPods'[<<ns, "ignoring">>] = Cardinality({p \in Listed : ~HasLifetime(p)})
               /\ metricPods'[<<ns, "tracking">>] + metricPods'[<<ns, "ignoring">>] = Len(items)
         ]_vars

\* C10 witness: the gauges of namespace "a" were published after a pass that listed
\* tracked and ignored pods and reaped one of them.
C10_Witness ==
    /\ <<"a", "tracking">> \in DOMAIN metricPods
    /\ metricPods[<<"a", "tracking">>] > 0
    /\ metricPods[<<"a", "ignoring">>] > 0
    /\ metricPodsReaped[<<"a", "killed">>] > 0

\* ------------------------------------------------ properties: reapNodes
\* The gauges of the tick are published and the taint loop runs or has ended.
NodesPublished == pc = "taintLoop"

NodeIds == DOMAIN nodes

SpotLabeled(i) ==
    /\ "node-lifecycle" \in DOMAIN nodes[i].Labels
    /\ nodes[i].Labels["node-lifecycle"] = "spot"

NodeAge(i) == now - nodes[i].CreationTimestamp

Threshold == ParseDuration(nodeLifeTime).d

\* The sum of the values of the series in S.
RECURSIVE SumOf(_, _)
SumOf(vec, S) ==
    IF S = {} THEN 0
    ELSE LET l == CHOOSE x \in S : TRUE IN vec[l] + SumOf(vec, S \ {l})

\* C6 (as stated): after reapNodes, the "total" gauge of every fleet group, the
\* empty-key group included, is the number of listed nodes of the group, and the group
\* totals add up to the number of nodes listed.
C6_TotalCounted ==
    NodesPublished =>
        /\ \A i \in NodeIds :
              metricNodes[<<NodeGroupOf(nodes[i]), "total">>]
                 = Cardinality({j \in NodeIds : NodeGroupOf(nodes[j]) = NodeGroupOf(nodes[i])})
        /\ SumOf(metricNodes, {<<NodeGroupOf(nodes[i]), "total">> : i \in NodeIds}) = Len(nodes)

C8_SpotSum ==
    NodesPublished =>
        SumOf(metricNodes, {l \in DOMAIN metricNodes : l[2] = "spot"})
           = Cardinality({i \in NodeIds : SpotLabeled(i)})

\* ------------------------------------------------- properties: failures
\* The last call of the pass is a failed delete of the evicted branch.
CleanupFailed ==
    /\ calls /= <<>>
    /\ calls[Len(calls)].branch = "cleanup"
    /\ ~calls[Len(calls)].ok

\* C11: a failed delete in the evicted branch ends the process: the process panics at
\* once and takes no further step (no further pod, no later namespace, no node
\* reconciliation), the step publishes no metrics, so the namespace has none in the
\* first tick; and the process panics only then or when a pod list fails, never on a
\* failed lifetime reap.
C11_CleanupFailureAborts ==
    /\ [](CleanupFailed => pc = "panic")
    /\ []((CleanupFailed /\ tick = 1)
            => \A l \in DOMAIN metricPods \cup DOMAIN metricPodsReaped : l[1] /= ns)
    /\ [](pc = "panic" => (CleanupFailed \/ (items = <<>> /\ calls = <<>>)))
    /\ [][pc /= "panic"]_vars
    /\ [][pc' = "panic" => (metricPods' = metricPods /\ metricPodsReaped' = metricPodsReaped)]_vars

\* C11 witness: the delete of an evicted pod failed in the first namespace while a pod
\* of the list was still to be processed.
C11_Witness ==
    /\ CleanupFailed
    /\ pc = "panic"
    /\ idx < Len(items)
    /\ nsIdx < Len(reaperNamespaces)

\* The number of successful calls on the pods listed before position j: the reaps
\* made before the j-th pod was looked at.
KilledAt(j) ==
    Cardinality({i \in DOMAIN calls :
                    calls[i].ok /\ \E k \in 1..(j - 1) : items[k] = calls[i].pod})

\* C12: a failed lifetime reap does not end the pass: the loop goes on, the killed count
\* is the number of successful calls (a failure uses no budget), no pod gets a second
\* lifetime call in the pass, and every pod the loop has dealt with that qualifies and
\* was reached with budget left got its lifetime call.
C12_TtlFailureTolerated ==
    InPass =>
        /\ podsKilled = Cardinality(Succeeded(DOMAIN calls))
        /\ \A i, j \in TtlCalls : calls[i].pod = calls[j].pod => i = j
        /\ \A i \in TtlCalls : (~calls[i].ok /\ i = Len(calls)) => pc = "podLoop"
        /\ \A j \in 1..(idx - 1) :
              (Qualifies(items[j]) /\ KilledAt(j) < maxReaperCount)
                 => \E i \in TtlCalls : calls[i].pod = items[j]

\* C12 witness: a finished pass in which the lifetime reap of the first pod failed and
\* the pod listed after it was reaped with the budget of one the failure left.
C12_Witness ==
    /\ PassDone
    /\ maxReaperCount = 1
    /\ Len(items) >= 2
    /\ \E i \in TtlCalls : calls[i].pod = items[1] /\ ~calls[i].ok
    /\ \E i \in TtlCalls : calls[i].pod = items[2] /\ calls[i].ok
    /\ podsKilled = 1

\* C13: a failed pod list ends the process at once, before any later namespace and
\* before reapNodes; a failed node list leaves reapNodes with no nodes: it goes on to
\* publish and to the taint loop, makes no taint call and returns to the end of the tick.
C13_ListFailures ==
    /\ [](podsErr => pc = "panic")
    /\ [][~podsErr]_vars
    /\ [](nodesErr => /\ pc \in {"nodeMetrics", "taintLoop"}
                      /\ nodes = <<>>
                      /\ taintCalls = <<>>)
    /\ []((nodesErr /\ pc = "taintLoop") => ENABLED ReapNodesReturns)
    /\ [][nodesErr => \/ (pc = "nodeMetrics" /\ pc' = "taintLoop" /\ nodesErr')
                      \/ (pc = "taintLoop" /\ pc' = "tickEnd" /\ taintCalls = <<>>)]_vars

\* C13 witness: the node list failed in the second tick and reapNodes has reached the
\* end of its taint loop.
C13_Witness ==
    /\ nodesErr
    /\ pc = "taintLoop"
    /\ tick = 2

\* The taint calls made for the i-th node of the list.
TaintCallsOf(i) == {k \in DOMAIN taintCalls : taintCalls[k].node = i}

\* C14: a failed taint call does not end the taint loop: every node the loop has dealt
\* with that has the spot label and has reached the threshold got exactly one taint
\* call, whatever the outcome of the other calls, and no node got more than one.
C14_EveryAgedSpotTaintedOnce ==
    NodesPublished =>
        /\ \A i \in 1..(nodeIdx - 1) :
              (SpotLabeled(i) /\ NodeAge(i) >= Threshold) => Cardinality(TaintCallsOf(i)) = 1
        /\ \A i \in NodeIds : Cardinality(TaintCallsOf(i)) <= 1

\* C14 witness: the taint loop has ended, the taint call of the first node failed and
\* the second node got its taint call.
C14_Witness ==
    /\ NodesPublished /\ nodeIdx > Len(nodes)
    /\ Len(taintCalls) = 2
    /\ taintCalls[1].node = 1 /\ ~taintCalls[1].ok
    /\ taintCalls[2].node = 2

\* --------------------------------------------------- properties: budget
\* C17: the killed count starts at zero in every namespace pass of every tick, so with a
\* budget of at least one the first listed pod of a pass gets its lifetime reap when it
\* qualifies, whatever was reaped in another namespace or in an earlier tick; and the
\* successful lifetime reaps of a tick number at most max-reap-count for each namespace
\* passed so far, hence at most max-reap-count times the number of namespaces.
C17_BudgetPerNamespace ==
    /\ (pc = "podLoop" /\ idx = 1) => podsKilled = 0
    /\ (InPass /\ idx > 1 /\ maxReaperCount >= 1 /\ Qualifies(items[1]))
          => \E i \in TtlCalls : calls[i].pod = items[1]
    /\ InPass => tickTtlReaps <= maxReaperCount * nsIdx
    /\ tickTtlReaps <= maxReaperCount * Len(reaperNamespaces)

\* C17 witness: with a budget of one, the second namespace of a tick made its lifetime
\* reap after the first namespace had used its budget up in the same tick.
C17_Witness ==
    /\ PassDone
    /\ maxReaperCount = 1
    /\ nsIdx = 2
    /\ tickTtlReaps = 2
    /\ Cardinality(Succeeded(TtlCalls)) = 1

\* The calls of the pass made for pod p.
CallsOf(p) == {i \in DOMAIN calls : calls[i].pod = p}

\* C18 (as stated): in a pass no pod gets more than one call and no pod is counted more
\* than once in the killed count; a pod past its lifetime and marked Evicted, with
\* reap-evicted enabled, is removed by one call and adds one to the killed count.
C18_OneCallPerPod ==
    InPass =>
        /\ \A p \in Listed : Cardinality(CallsOf(p)) <= 1
        /\ podsKilled = Cardinality(Reaped)

\* ------------------------------------------------- properties: lifetime
\* The parsed value of the lifetime annotation of a pod that has one.
Declared(p) == ParseDuration(podSpec[p].Annotations[lifetimeAnnotation]).d

Age(p) == now - podSpec[p].CreationTimestamp

\* C19 (as stated): a pod gets a lifetime reap only when its annotation declares a
\* positive lifetime that its age has strictly exceeded; a negative duration and an age
\* equal to the lifetime are not reaped.
C19_PositiveExceeded ==
    InPass =>
        \A i \in TtlCalls :
            /\ lifetimeAnnotation \in DOMAIN podSpec[calls[i].pod].Annotations
            /\ Declared(calls[i].pod) > 0
            /\ Age(calls[i].pod) > Declared(calls[i].pod)

\* C19 (amended): a pod gets a lifetime reap only when its annotation parses to a
\* non-zero lifetime that its age has strictly exceeded, so a pod whose age equals its
\* lifetime is not reaped; a negative duration is not rejected: every age exceeds it,
\* and the pod gets its lifetime reap when it is reached with budget left.
C19_NonZeroExceeded ==
    InPass =>
        /\ \A i \in TtlCalls :
              /\ lifetimeAnnotation \in DOMAIN podSpec[calls[i].pod].Annotations
              /\ Declared(calls[i].pod) /= 0
              /\ Age(calls[i].pod) > Declared(calls[i].pod)
        /\ \A j \in 1..(idx - 1) :
              (/\ lifetimeAnnotation \in DOMAIN podSpec[items[j]].Annotations
               /\ Declared(items[j]) < 0
               /\ KilledAt(j) < maxReaperCount)
                 => \E i \in TtlCalls : calls[i].pod = items[j]

\* C19 witness: a finished pass that left alone, with budget left, a pod whose age
\* equals its lifetime and then reaped a pod with a negative lifetime.
C19_Witness ==
    /\ PassDone
    /\ Len(items) = 2
    /\ lifetimeAnnotation \in DOMAIN podSpec[items[1]].Annotations
    /\ Declared(items[1]) > 0 /\ Age(items[1]) = Declared(items[1])
    /\ ~Called(items[1])
    /\ lifetimeAnnotation \in DOMAIN podSpec[items[2]].Annotations
    /\ Declared(items[2]) < 0
    /\ \E i \in TtlCalls : calls[i].pod = items[2] /\ calls[i].ok

\* ------------------------------------------------ properties: main loop
\* C15: in every tick the namespaces are passed in the configured order, one after the
\* other, and reapNodes starts only when the last of them is done and ends the tick; in
\* cron-job mode the process exits at the end of the first tick and does nothing more;
\* in daemon mode the end of a tick is followed, one sleep interval later, by the start
\* of the next tick at the first namespace.
C15_TickOrder ==
    /\ [](pc = "podLoop" => nsIdx \in 1..Len(reaperNamespaces))
    /\ [][nsIdx' /= nsIdx => \/ (PassDone /\ nsIdx' = nsIdx + 1)
                             \/ (pc = "tickEnd" /\ nsIdx' = 1)]_vars
    /\ [][(pc /= "reapNodes" /\ pc' = "reapNodes")
            => \/ Len(reaperNamespaces) = 0
               \/ (PassDone /\ nsIdx = Len(reaperNamespaces))]_vars
    /\ [][(pc /= "tickEnd" /\ pc' = "tickEnd") => pc \in {"reapNodes", "taintLoop"}]_vars
    /\ [](runAsCronJob => tick = 1)
    /\ [][(pc = "tickEnd" /\ runAsCronJob) => pc' = "exit"]_vars
    /\ [][pc /= "exit"]_vars
    /\ [][(pc = "tickEnd" /\ ~runAsCronJob)
            => /\ pc' = "reapPods" /\ nsIdx' = 1
               /\ tick' = tick + 1
               /\ now' = now + SleepInterval]_vars
    /\ [](pc = "reapNodes" => <>(pc \in {"tickEnd", "nodeMetrics"}))
    /\ []((pc = "tickEnd" /\ runAsCronJob) => <>(pc = "exit"))
    /\ []((pc = "tickEnd" /\ ~runAsCronJob /\ tick < MaxTicks) => <>(pc = "reapPods"))

\* C15 witness: in daemon mode the second tick has passed both namespaces and has come
\* to its end.
C15_Witness ==
    /\ ~runAsCronJob
    /\ tick = 2
    /\ pc = "tickEnd"
    /\ Len(reaperNamespaces) = 2
    /\ metricPodsReaped[<<"b", "killed">>] > 0

\* -------------------------------------------------- properties: metrics
\* The value of a series of a counter vector; a series that was never touched reads 0.
CounterValue(vec, l) == IF l \in DOMAIN vec THEN vec[l] ELSE 0

\* The successful calls of the pass from the given branch with the given verb.
SucceededBy(branch, op) ==
    {i \in Succeeded(DOMAIN calls) : calls[i].branch = branch /\ calls[i].op = op}

\* C16 (as stated): the reaped-pods counter has the series "deleted", "evicted" and
\* "killed-as-evicted" per namespace and counts reaps in no other; when a pass completes, the
\* successful lifetime deletes are added to the first, the successful lifetime
\* evictions to the second and the deletions of the evicted branch to the third.
C16_MethodSeries ==
    /\ [](\A l \in DOMAIN metricPodsReaped :
             metricPodsReaped[l] > 0 => l[2] \in {"deleted", "evicted", "killed-as-evicted"})
    /\ [][(PassDone /\ pc' /= "podLoop")
            => /\ CounterValue(metricPodsReaped', <<ns, "deleted">>)
                    = CounterValue(metricPodsReaped, <<ns, "deleted">>)
                      + Cardinality(SucceededBy("ttl", "delete"))
               /\ CounterValue(metricPodsReaped', <<ns, "evicted">>)
                    = CounterValue(metricPodsReaped, <<ns, "evicted">>)
                      + Cardinality(SucceededBy("ttl", "evict"))
               /\ CounterValue(metricPodsReaped', <<ns, "killed-as-evicted">>)
                    = CounterValue(metricPodsReaped, <<ns, "killed-as-evicted">>)
                      + Cardinality(SucceededBy("cleanup", "delete"))
         ]_vars

\* ------------------------------------------------- properties: liveness
\* A call of the current pass on pod p has failed.
FailedCallOn(p) == \E i \in CallsOf(p) : ~calls[i].ok

\* C20: in daemon mode with a budget of at least one, every pod that is past its
\* declared lifetime when the process starts is eventually removed, in the first tick or
\* in a later one, unless a call on the pod itself fails or the process panics; the
\* failing calls on other pods and the budget do not keep it from being reaped.
C20_EventuallyReaped ==
    \A p \in 1..MaxPods :
        (maxReaperCount >= 1 /\ p \in Qualified(cluster))
            => <>(p \notin cluster \/ FailedCallOn(p) \/ pc = "panic")

\* C20 witness: in the second tick a pod that was already past its lifetime in the
\* first tick is reaped, after the lifetime reap of the pod listed before it has failed.
C20_Witness ==
    /\ PassDone
    /\ tick = 2
    /\ Len(items) = 2
    /\ \E i \in TtlCalls : calls[i].pod = items[1] /\ ~calls[i].ok
    /\ \E i \in TtlCalls : calls[i].pod = items[2] /\ calls[i].ok
    /\ items[2] \in prevQualified[ns].pods

====
